---- MODULE Spec2Model ----
(***************************************************************************)
(* A model of the Workout interval timer (Kris030/Workout).                *)
(*                                                                         *)
(*   - load_workout / get_workout : the line-oriented parser               *)
(*   - Workout::length            : the estimated duration                 *)
(*   - do_workout                 : the resumable player (src/workout.rs)  *)
(*   - play_workout, main         : the first player and its beep callback *)
(*                                  (src/main.rs)                          *)
(*                                                                         *)
(* Text is a sequence of one-character strings.  Durations are counted in  *)
(* milliseconds.  Indices keep the zero-based values of the Rust code; a   *)
(* sequence is read at index + 1.                                          *)
(***************************************************************************)
EXTENDS Integers, Sequences, FiniteSets, TLC

VARIABLES
    pc,                 \* position of the running operation
    source,             \* the workout text handed to load_workout
    loaded,             \* what load_workout returned
    overflow_checks,    \* build profile: TRUE = debug (overflow panics)
    estimate,           \* what Workout::length returned
    token,              \* input of a parser helper applied on its own
    parsed,             \* output of that helper
    player,             \* "do_workout" or "play_workout"
    workout,            \* the Workout being played
    from,               \* start position (section, repetition, excercise)
    si,                 \* index of the section being played
    section_repetition, \* loop variable of the repetition loop
    pi,                 \* index of the element being played
    first,              \* do_workout's one-time resume flag
    events,             \* beeps, sleeps, element starts and reads, in order
    queue_in,           \* main: the clips appended to the audio queue
    result              \* what the player returned

vars == <<pc, source, loaded, overflow_checks, estimate, token, parsed, player,
          workout, from, si, section_repetition, pi, first, events, queue_in,
          result>>

-----------------------------------------------------------------------------
(* Bounds of the model *)

MaxLines == 3       \* lines of a workout text after its first line
MaxDurLen == 6      \* characters of an amount token
MaxHeadLen == 5     \* characters of the remainder of a Set line
MaxStart == 2       \* largest index in a start position

-----------------------------------------------------------------------------
(* Rust values: Option, Result, and a panic as a third outcome *)

None == <<>>
Some(x) == <<x>>
IsNone(o) == Len(o) = 0
IsSome(o) == Len(o) = 1
Unwrap(o) == o[1]

Ok(v) == [tag |-> "Ok", val |-> v]
Err(m) == [tag |-> "Err", msg |-> m]
Panic(m) == [tag |-> "Panic", msg |-> m]
IsOk(r) == r.tag = "Ok"

Idle == [tag |-> "Idle"]

U16_MAX == 65535

-----------------------------------------------------------------------------
(* str helpers of the standard library, as the parser uses them *)

IsWhitespace(c) == c \in {" ", "\t", "\n", "\r"}

RECURSIVE trim_start(_)
trim_start(s) ==
    IF s = <<>> THEN s
    ELSE IF IsWhitespace(Head(s)) THEN trim_start(Tail(s)) ELSE s

RECURSIVE trim_end(_)
trim_end(s) ==
    IF s = <<>> THEN s
    ELSE IF IsWhitespace(s[Len(s)]) THEN trim_end(SubSeq(s, 1, Len(s) - 1)) ELSE s

trim(s) == trim_end(trim_start(s))

starts_with(s, p) == Len(s) >= Len(p) /\ SubSeq(s, 1, Len(p)) = p

ends_with(s, c) == Len(s) > 0 /\ s[Len(s)] = c

strip_prefix(s, p) ==
    IF starts_with(s, p) THEN Some(SubSeq(s, Len(p) + 1, Len(s))) ELSE None

SetMin(S) == CHOOSE x \in S : \A y \in S : x <= y
SetMax(S) == CHOOSE x \in S : \A y \in S : x >= y

split_once(s, c) ==
    LET at == {i \in 1..Len(s) : s[i] = c} IN
    IF at = {} THEN None
    ELSE LET i == SetMin(at) IN Some(<<SubSeq(s, 1, i - 1), SubSeq(s, i + 1, Len(s))>>)

rsplit_once(s, c) ==
    LET at == {i \in 1..Len(s) : s[i] = c} IN
    IF at = {} THEN None
    ELSE LET i == SetMax(at) IN Some(<<SubSeq(s, 1, i - 1), SubSeq(s, i + 1, Len(s))>>)

Digits == <<"0", "1", "2", "3", "4", "5", "6", "7", "8", "9">>
IsDigit(c) == \E d \in 1..10 : Digits[d] = c
DigitValue(c) == (CHOOSE d \in 1..10 : Digits[d] = c) - 1

RECURSIVE DecimalValue(_)
DecimalValue(s) ==
    IF s = <<>> THEN 0
    ELSE 10 * DecimalValue(SubSeq(s, 1, Len(s) - 1)) + DigitValue(s[Len(s)])

\* str::parse for an unsigned integer type: an optional '+', then at least one
\* digit and nothing else.
ParseDigits(s) ==
    LET body == IF Len(s) > 0 /\ s[1] = "+" THEN Tail(s) ELSE s IN
    IF body = <<>> THEN Err("ParseIntError")
    ELSE IF \E i \in 1..Len(body) : ~IsDigit(body[i]) THEN Err("ParseIntError")
    ELSE Ok(DecimalValue(body))

\* parse::<u16>: the value must fit 16 bits
parse_u16(s) ==
    LET n == ParseDigits(s) IN
    IF IsOk(n) /\ n.val > U16_MAX THEN Err("ParseIntError") ELSE n

\* parse::<u64>: the parser hands it two characters, which always fit
parse_u64(s) == ParseDigits(s)

\* str::lines: split at every '\n', a final empty piece is no line, and a
\* '\r' before the '\n' belongs to the line ending.
StripCr(ln) == IF ends_with(ln, "\r") THEN SubSeq(ln, 1, Len(ln) - 1) ELSE ln

lines_of(s) ==
    LET ends == {i \in 1..Len(s) : s[i] = "\n"} \cup
                (IF Len(s) > 0 /\ s[Len(s)] # "\n" THEN {Len(s) + 1} ELSE {})
        EndOf(k) == CHOOSE i \in ends : Cardinality({j \in ends : j < i}) = k - 1
        StartOf(k) == IF k = 1 THEN 1 ELSE EndOf(k - 1) + 1
    IN  [k \in 1..Cardinality(ends) |-> StripCr(SubSeq(s, StartOf(k), EndOf(k) - 1))]

Duration_from_secs(n) == n * 1000

-----------------------------------------------------------------------------
(* The words of the file format, as the parser spells them *)

KwWorkout == <<"W", "o", "r", "k", "o", "u", "t", " ">>
KwSet == <<"S", "e", "t">>
KwExcercise == <<"E", "x", "c", "e", "r", "c", "i", "s", "e">>
KwRest == <<"R", "e", "s", "t">>
KwSetRest == <<"S", "e", "t", " ", "r", "e", "s", "t", " ">>

-----------------------------------------------------------------------------
(* load_workout *)

TimeAmount(d, m) == [kind |-> "Time", duration |-> d, midbeep |-> m, count |-> 0]
RepsAmount(n) == [kind |-> "Reps", duration |-> 0, midbeep |-> FALSE, count |-> n]
NoAmount == [kind |-> "None", duration |-> 0, midbeep |-> FALSE, count |-> 0]

Excercise(name, amount) ==
    [kind |-> "Excercise", name |-> name, amount |-> amount, duration |-> 0]
Rest(duration) ==
    [kind |-> "Rest", name |-> <<>>, amount |-> NoAmount, duration |-> duration]

WorkoutSet(name, reps, parts, set_rest) ==
    [name |-> name, reps |-> reps, parts |-> parts, set_rest |-> set_rest]

Workout(name, sections) == [name |-> name, sections |-> sections]

\* parse_dur with the colon left in the seconds
parse_dur_keeps_colon(s) ==
    IF Len(s) < 5 THEN Panic("byte index 5 is out of bounds")
    ELSE LET mins == ParseDigits(SubSeq(s, 1, 2))
             secs == ParseDigits(SubSeq(s, 3, 5))
         IN  IF ~IsOk(mins) THEN mins
             ELSE IF ~IsOk(secs) THEN secs
             ELSE Ok(Duration_from_secs(mins.val * 60 + secs.val))

\* fn parse_dur: s[..5] panics on a shorter token; the third character is
\* dropped unread.
parse_dur(s) ==
    IF Len(s) < 5 THEN Panic("byte index 5 is out of bounds")
    ELSE LET mins == parse_u64(SubSeq(s, 1, 2))
             secs == parse_u64(SubSeq(s, 4, 5))
         IN  IF ~IsOk(mins) THEN mins
             ELSE IF ~IsOk(secs) THEN secs
             ELSE Ok(Duration_from_secs(mins.val * 60 + secs.val))

\* the closure get_name_reps, on the text that follows "Set"
get_name_reps(after_set) ==
    LET set == trim_start(after_set) IN
    IF set = <<>> THEN <<None, 1>>
    ELSE LET sp == rsplit_once(set, " ") IN
         IF IsSome(sp)
         THEN LET name == Unwrap(sp)[1]
                  reps == Unwrap(sp)[2]
                  x == strip_prefix(reps, <<"x">>)
                  r == IF IsSome(x) THEN parse_u16(Unwrap(x))
                       ELSE Err("no x")
              IN  IF IsOk(r) THEN <<Some(name), r.val>> ELSE <<Some(set), 1>>
         ELSE <<Some(set), 1>>

\* parse_amount with the x left in the repeat count
parse_amount_keeps_x(amount) ==
    IF starts_with(amount, <<"x">>)
    THEN LET reps == ParseDigits(amount) IN
         IF IsOk(reps) THEN Ok(RepsAmount(reps.val))
         ELSE Err("Coudln't parse excercise reps")
    ELSE Err("Couldn't parse excercise duration")

\* the amount of an Excercise line: x<reps>, or a duration with an optional
\* closing quote
parse_amount(amount) ==
    LET x == strip_prefix(amount, <<"x">>) IN
    IF IsSome(x)
    THEN LET reps == parse_u16(Unwrap(x)) IN
         IF IsOk(reps) THEN Ok(RepsAmount(reps.val))
         ELSE Err("Coudln't parse excercise reps")
    ELSE LET midbeep == ends_with(amount, "\"")
             duration == parse_dur(amount)
         IN  IF duration.tag = "Panic" THEN duration
             ELSE IF ~IsOk(duration) THEN Err("Couldn't parse excercise duration")
             ELSE Ok(TimeAmount(duration.val, midbeep))

\* one element line, already split at its first space into t and rest;
\* Ok(None) is the break of the element loop
parse_element(t, rest) ==
    IF t = KwExcercise
    THEN LET sp == rsplit_once(rest, " ") IN
         IF IsNone(sp) THEN Err("No amount provided for excercise")
         ELSE LET amount == parse_amount(Unwrap(sp)[2]) IN
              IF ~IsOk(amount) THEN amount
              ELSE Ok(Some(Excercise(Unwrap(sp)[1], amount.val)))
    ELSE IF t = KwRest
    THEN LET duration == parse_dur(rest) IN
         IF duration.tag = "Panic" THEN duration
         ELSE IF ~IsOk(duration) THEN Err("Couldn't parse rest duration")
         ELSE Ok(Some(Rest(duration.val)))
    ELSE Ok(None)

\* the inner loop: the elements of one section, from line l on
RECURSIVE parse_parts(_, _, _)
parse_parts(lines, l, set_parts) ==
    IF ~(l < Len(lines)) THEN Ok([parts |-> set_parts, l |-> l])
    ELSE LET line == trim_start(lines[l + 1])
             sp == split_once(line, " ")
         IN  IF IsNone(sp) THEN Ok([parts |-> set_parts, l |-> l])
             ELSE LET p == parse_element(Unwrap(sp)[1], Unwrap(sp)[2]) IN
                  IF ~IsOk(p) THEN p
                  ELSE IF IsNone(p.val) THEN Ok([parts |-> set_parts, l |-> l])
                  ELSE parse_parts(lines, l + 1, Append(set_parts, Unwrap(p.val)))

\* the optional "Set rest <duration>" line after the elements
parse_set_rest(lines, l) ==
    IF l < Len(lines)
    THEN LET r == strip_prefix(trim_start(lines[l + 1]), KwSetRest) IN
         IF IsNone(r) THEN Ok(None)
         ELSE LET duration == parse_dur(Unwrap(r)) IN
              IF duration.tag = "Panic" THEN duration
              ELSE IF IsOk(duration) THEN Ok(Some(duration.val))
              ELSE Ok(None)
    ELSE Ok(None)

\* the outer loop: one section per turn, from line l on
RECURSIVE parse_sections(_, _, _, _)
parse_sections(lines, l, sections, workout_name) ==
    IF ~(l < Len(lines)) THEN Ok(Workout(workout_name, sections))
    ELSE LET set == strip_prefix(trim_start(lines[l + 1]), KwSet) IN
         IF IsNone(set) THEN Err("Expected start of set")
         ELSE LET set_name_reps == get_name_reps(Unwrap(set))
                  body == parse_parts(lines, l + 1, <<>>)
              IN  IF ~IsOk(body) THEN body
                  ELSE LET set_rest == parse_set_rest(lines, body.val.l) IN
                       IF ~IsOk(set_rest) THEN set_rest
                       ELSE parse_sections(
                                lines,
                                IF IsSome(set_rest.val) THEN body.val.l + 1 ELSE body.val.l,
                                Append(sections,
                                       WorkoutSet(set_name_reps[1], set_name_reps[2],
                                                  body.val.parts, set_rest.val)),
                                workout_name)

load_workout(text) ==
    LET lines == SelectSeq(lines_of(text), LAMBDA ln : trim(ln) # <<>>) IN
    IF lines = <<>> THEN Panic("index out of bounds: the len is 0 but the index is 0")
    ELSE LET workout_name == strip_prefix(trim_start(lines[1]), KwWorkout) IN
         IF IsNone(workout_name) THEN Err("Didn't provide workout name")
         ELSE parse_sections(lines, 1, <<>>, Unwrap(workout_name))

-----------------------------------------------------------------------------
(* Workout::length *)

\* the Duration an element adds to a repetition
part_duration(p) ==
    IF p.kind = "Excercise"
    THEN (IF p.amount.kind = "Time" THEN p.amount.duration ELSE 0)
    ELSE p.duration

RECURSIVE parts_duration(_)
parts_duration(parts) ==
    IF parts = <<>> THEN 0 ELSE part_duration(Head(parts)) + parts_duration(Tail(parts))

\* A Duration that may exceed 32 bits is carried as hi * 2^32 + lo.
Wide(hi, lo) == [hi |-> hi, lo |-> lo]

\* the closure of one section: rests * (reps - 1) + parts * reps, where reps is
\* a u32.  With reps = 0 the subtraction overflows: a panic when the build
\* checks overflow, and 2^32 - 1 when it wraps.
section_length(s, checks) ==
    LET reps == s.reps
        rests == IF IsSome(s.set_rest) THEN Unwrap(s.set_rest) ELSE 0
        parts == parts_duration(s.parts)
    IN  IF reps = 0
        THEN (IF checks THEN Panic("attempt to subtract with overflow")
              ELSE Ok(Wide(rests, parts * reps - rests)))
        ELSE Ok(Wide(0, rests * (reps - 1) + parts * reps))

RECURSIVE sum_lengths(_, _, _)
sum_lengths(sections, checks, acc) ==
    IF sections = <<>> THEN Ok(acc)
    ELSE LET one == section_length(Head(sections), checks) IN
         IF ~IsOk(one) THEN one
         ELSE sum_lengths(Tail(sections), checks,
                          Wide(acc.hi + one.val.hi, acc.lo + one.val.lo))

length(w, checks) == sum_lengths(w.sections, checks, Wide(0, 0))

-----------------------------------------------------------------------------
(* Workout texts *)

LnWorkoutW == <<"W", "o", "r", "k", "o", "u", "t", " ", "W">>
LnBlank == <<" ", " ">>
LnSet == <<"S", "e", "t">>
LnSetX3 == <<"S", "e", "t", " ", "x", "3">>
LnSetA == <<"S", "e", "t", " ", "A">>
LnSetAx2 == <<"S", "e", "t", " ", "A", " ", "x", "2">>
LnSetAx0 == <<"S", "e", "t", " ", "A", " ", "x", "0">>
LnExcercisePush ==
    <<"E", "x", "c", "e", "r", "c", "i", "s", "e", " ", "P", "u", "s", "h", " ", "x", "1", "0">>
LnExercisePush ==
    <<"E", "x", "e", "r", "c", "i", "s", "e", " ", "P", "u", "s", "h", " ", "x", "1", "0">>
LnExcercisePlank ==
    <<"E", "x", "c", "e", "r", "c", "i", "s", "e", " ", "P", "l", "a", "n", "k", " ",
      "0", "1", ":", "3", "0", "\"">>
LnRest == <<"R", "e", "s", "t", " ", "0", "0", ":", "0", "5">>
LnSetRest == <<"S", "e", "t", " ", "r", "e", "s", "t", " ", "0", "0", ":", "1", "0">>
LnSetRestShort == <<"S", "e", "t", " ", "r", "e", "s", "t", " ", "1", ":", "3">>
LnSetRestBad == <<"S", "e", "t", " ", "r", "e", "s", "t", " ", "a", "b", ":", "c", "d">>

FirstLines == {LnWorkoutW, LnBlank, LnSetA}

BodyLines ==
    {LnWorkoutW, LnBlank, LnSet, LnSetX3, LnSetAx2, LnSetAx0, LnExcercisePush,
     LnExercisePush, LnExcercisePlank, LnRest, LnSetRest, LnSetRestShort,
     LnSetRestBad}

\* every line ends with a newline
RECURSIVE Text(_)
Text(ls) == IF ls = <<>> THEN <<>> ELSE Head(ls) \o <<"\n">> \o Text(Tail(ls))

SeqsUpTo(S, n) == UNION {[1..k -> S] : k \in 0..n}

Texts ==
    {<<>>} \cup {Text(<<h>> \o b) : h \in FirstLines, b \in SeqsUpTo(BodyLines, MaxLines)}

-----------------------------------------------------------------------------
(* Loading a workout and showing its estimated length *)

NoPlayer ==
    /\ player = "none"
    /\ workout = Workout(<<>>, <<>>)
    /\ from = <<0, 0, 0>>
    /\ si = 0
    /\ section_repetition = 0
    /\ pi = 0
    /\ first = FALSE
    /\ events = <<>>
    /\ queue_in = <<>>
    /\ result = Idle

NoHelper == token = <<>> /\ parsed = Idle

InitLoad ==
    /\ pc = "load"
    /\ source \in Texts
    /\ loaded = Idle
    /\ overflow_checks \in BOOLEAN
    /\ estimate = Idle
    /\ NoHelper
    /\ NoPlayer

\* let workout = load_workout(&source)
LoadWorkout ==
    /\ pc = "load"
    /\ loaded' = load_workout(source)
    /\ pc' = "loaded"
    /\ UNCHANGED <<source, overflow_checks, estimate, token, parsed, player, workout,
                   from, si, section_repetition, pi, first, events, queue_in, result>>

\* Display for Workout: "{name} [~{length} mins]"
ShowLength ==
    /\ pc = "loaded"
    /\ IsOk(loaded)
    /\ estimate' = length(loaded.val, overflow_checks)
    /\ pc' = "shown"
    /\ UNCHANGED <<source, loaded, overflow_checks, token, parsed, player, workout,
                   from, si, section_repetition, pi, first, events, queue_in, result>>

NextLoad == LoadWorkout \/ ShowLength

SpecLoad == InitLoad /\ [][NextLoad]_vars

-----------------------------------------------------------------------------
(* What a player does, in order *)

NoPosition == <<0, 0, 0>>

Beep(level) == [ev |-> "beep", level |-> level, ms |-> 0, at |-> NoPosition]
Sleep(ms) == [ev |-> "sleep", level |-> "", ms |-> ms, at |-> NoPosition]
\* println!("  {p}"): element p of repetition r of section s is started
Start(s, r, p) == [ev |-> "start", level |-> "", ms |-> 0, at |-> <<s, r, p>>]
\* stdin().read_line returned
ReadLine == [ev |-> "read_line", level |-> "", ms |-> 0, at |-> NoPosition]

-----------------------------------------------------------------------------
(* main: the beep callback and the audio queue *)

\* BeepLevel as usize
Discriminant(level) ==
    CASE level = "High" -> 0
      [] level = "Mid" -> 1
      [] level = "Low" -> 2

get_frequency(level) ==
    CASE level = "High" -> 750
      [] level = "Mid" -> 600
      [] level = "Low" -> 450

\* the closure beep_sample: a tone of the level's frequency
beep_sample(level) == [frequency |-> get_frequency(level)]

presampled == <<beep_sample("Low"), beep_sample("Mid"), beep_sample("High")>>

\* |level| queue_in.append(presampled[level as usize].clone())
beep_callback(level) == presampled[Discriminant(level) + 1]

\* the clips the callback appends for the beeps among evs
Clips(evs) ==
    LET beeps == SelectSeq(evs, LAMBDA e : e.ev = "beep") IN
    [i \in 1..Len(beeps) |-> beep_callback(beeps[i].level)]

\* events happen; under main each beep also appends its clip
Emit(evs) ==
    /\ events' = events \o evs
    /\ queue_in' = IF player = "play_workout" THEN queue_in \o Clips(evs) ELSE queue_in

Return(r) == result' = r /\ pc' = "done"

-----------------------------------------------------------------------------
(* do_workout *)

PRE_SECTION_WAIT == 2000
REST_END_WARNING == 5000

OutOfBounds == Err("Starting position is out of bounds")

ExcerciseCount(parts) == Len(SelectSeq(parts, LAMBDA p : p.kind = "Excercise"))

\* the find_map over the elements: the index of the element at which
\* exes_left reaches zero
RECURSIVE find_start(_, _, _)
find_start(parts, i, exes_left) ==
    IF ~(i < Len(parts)) THEN None
    ELSE IF parts[i + 1].kind = "Excercise"
    THEN (IF exes_left - 1 = 0 THEN Some(i) ELSE find_start(parts, i + 1, exes_left - 1))
    ELSE find_start(parts, i + 1, exes_left)

saturating_sub(a, b) == IF a >= b THEN a - b ELSE 0

\* match dur.checked_sub(REST_END_WARNING) { Some(f) if !f.is_zero() => .., _ => .. }
rest_with_warning(total) ==
    IF total >= REST_END_WARNING /\ total - REST_END_WARNING # 0
    THEN <<Sleep(total - REST_END_WARNING), Beep("Mid"), Sleep(REST_END_WARNING)>>
    ELSE <<Sleep(total)>>

\* the beep at the middle whether asked for or not: not the code's
timed_excercise_always_midbeep(amount) ==
    <<Sleep(amount.duration \div 2), Beep("Mid"), Sleep(amount.duration \div 2),
      Beep("Low")>>

\* a timed excercise after its High beep
timed_excercise(amount) ==
    IF amount.midbeep
    THEN <<Sleep(amount.duration \div 2), Beep("Mid"), Sleep(amount.duration \div 2),
           Beep("Low")>>
    ELSE <<Sleep(amount.duration), Beep("Low")>>

Section == workout.sections[si + 1]

\* the banner, the opening beeps and the check of the start position
DoWorkoutBegin ==
    /\ pc = "loaded"
    /\ player = "do_workout"
    /\ IsOk(loaded)
    /\ workout' = loaded.val
    /\ LET w == loaded.val
           banner == length(w, overflow_checks)
           fanfare == <<Beep("High"), Beep("Mid"), Beep("Low")>>
       IN  IF ~IsOk(banner)
           THEN /\ Return(banner)
                /\ UNCHANGED <<si, first, events, queue_in>>
           ELSE /\ Emit(fanfare)
                /\ IF from # <<0, 0, 0>> /\ ~(from[1] < Len(w.sections))
                   THEN /\ Return(Panic("index out of bounds"))
                        /\ UNCHANGED <<si, first>>
                   ELSE IF /\ from # <<0, 0, 0>>
                           /\ LET parts == ExcerciseCount(w.sections[from[1] + 1].parts) IN
                              \/ from[1] > Len(w.sections)
                              \/ from[2] > w.sections[from[1] + 1].reps
                              \/ from[3] > parts
                   THEN /\ Return(OutOfBounds)
                        /\ UNCHANGED <<si, first>>
                   ELSE /\ si' = from[1]
                        /\ first' = TRUE
                        /\ pc' = "section"
                        /\ UNCHANGED result
    /\ UNCHANGED <<source, loaded, overflow_checks, estimate, token, parsed, player,
                   from, section_repetition, pi>>

\* the head of the section loop: the start repetition
DoWorkoutSection ==
    /\ pc = "section"
    /\ player = "do_workout"
    /\ si < Len(workout.sections)
    /\ IF first
       THEN Emit(<<Sleep(6000)>>) /\ section_repetition' = from[2]
       ELSE Emit(<<>>) /\ section_repetition' = 0
    /\ pc' = "repetition"
    /\ UNCHANGED <<source, loaded, overflow_checks, estimate, token, parsed, player,
                   workout, from, si, pi, first, result>>

\* a repetition announced by one beep: not the code's
DoWorkoutRepetition_one_beep ==
    /\ pc = "repetition"
    /\ player = "do_workout"
    /\ section_repetition < Section.reps
    /\ Emit(<<Beep("Mid"), Sleep(PRE_SECTION_WAIT)>>)
    /\ IF first
       THEN LET start == find_start(Section.parts, 0, from[3] + 1) IN
            /\ first' = FALSE
            /\ IF IsNone(start)
               THEN Return(OutOfBounds) /\ UNCHANGED pi
               ELSE pi' = Unwrap(start) /\ pc' = "part" /\ UNCHANGED result
       ELSE /\ pi' = 0
            /\ pc' = "part"
            /\ UNCHANGED <<first, result>>
    /\ UNCHANGED <<source, loaded, overflow_checks, estimate, token, parsed, player,
                   workout, from, si, section_repetition>>

\* the head of a repetition: two beeps, the wait, the start element
DoWorkoutRepetition ==
    /\ pc = "repetition"
    /\ player = "do_workout"
    /\ section_repetition < Section.reps
    /\ Emit(<<Beep("Mid"), Beep("Mid"), Sleep(PRE_SECTION_WAIT)>>)
    /\ IF first
       THEN LET start == find_start(Section.parts, 0, from[3] + 1) IN
            /\ first' = FALSE
            /\ IF IsNone(start)
               THEN Return(OutOfBounds) /\ UNCHANGED pi
               ELSE pi' = Unwrap(start) /\ pc' = "part" /\ UNCHANGED result
       ELSE /\ pi' = 0
            /\ pc' = "part"
            /\ UNCHANGED <<first, result>>
    /\ UNCHANGED <<source, loaded, overflow_checks, estimate, token, parsed, player,
                   workout, from, si, section_repetition>>

\* the repetitions of the section are over
DoWorkoutNextSection ==
    /\ pc = "repetition"
    /\ player = "do_workout"
    /\ ~(section_repetition < Section.reps)
    /\ si' = si + 1
    /\ pc' = "section"
    /\ UNCHANGED <<source, loaded, overflow_checks, estimate, token, parsed, player,
                   workout, from, section_repetition, pi, first, events, queue_in,
                   result>>

\* an end beep for a counted excercise too: not the code's
DoWorkoutPart_low_beep_for_reps ==
    /\ pc = "part"
    /\ player = "do_workout"
    /\ pi < Len(Section.parts)
    /\ LET p == Section.parts[pi + 1]
           started == Start(si, section_repetition, pi)
       IN  IF p.kind = "Excercise"
           THEN IF p.amount.kind = "Time"
                THEN /\ Emit(<<started, Beep("High")>> \o timed_excercise(p.amount))
                     /\ pi' = pi + 1
                     /\ pc' = "part"
                ELSE /\ Emit(<<started, Beep("High"), Beep("Low")>>)
                     /\ pc' = "read_line"
                     /\ UNCHANGED pi
           ELSE /\ Emit(<<started>> \o rest_with_warning(p.duration))
                /\ pi' = pi + 1
                /\ pc' = "part"
    /\ UNCHANGED <<source, loaded, overflow_checks, estimate, token, parsed, player,
                   workout, from, si, section_repetition, first, result>>

\* one element
DoWorkoutPart ==
    /\ pc = "part"
    /\ player = "do_workout"
    /\ pi < Len(Section.parts)
    /\ LET p == Section.parts[pi + 1]
           started == Start(si, section_repetition, pi)
       IN  IF p.kind = "Excercise"
           THEN IF p.amount.kind = "Time"
                THEN /\ Emit(<<started, Beep("High")>> \o timed_excercise(p.amount))
                     /\ pi' = pi + 1
                     /\ pc' = "part"
                ELSE /\ Emit(<<started, Beep("High")>>)
                     /\ pc' = "read_line"
                     /\ UNCHANGED pi
           ELSE /\ Emit(<<started>> \o rest_with_warning(p.duration))
                /\ pi' = pi + 1
                /\ pc' = "part"
    /\ UNCHANGED <<source, loaded, overflow_checks, estimate, token, parsed, player,
                   workout, from, si, section_repetition, first, result>>

\* stdout().flush()?; stdin().read_line(&mut s)?;
DoWorkoutReadLine ==
    /\ pc = "read_line"
    /\ player = "do_workout"
    /\ \/ /\ Emit(<<ReadLine>>)
          /\ pi' = pi + 1
          /\ pc' = "part"
          /\ UNCHANGED result
       \/ /\ Return(Err("io"))
          /\ UNCHANGED <<pi, events, queue_in>>
    /\ UNCHANGED <<source, loaded, overflow_checks, estimate, token, parsed, player,
                   workout, from, si, section_repetition, first>>

\* a rest after the last repetition as well: not the code's
DoWorkoutSetRest_after_every_repetition ==
    /\ pc = "part"
    /\ player = "do_workout"
    /\ ~(pi < Len(Section.parts))
    /\ IF IsSome(Section.set_rest)
       THEN Emit(rest_with_warning(saturating_sub(Unwrap(Section.set_rest), PRE_SECTION_WAIT)))
       ELSE Emit(<<>>)
    /\ section_repetition' = section_repetition + 1
    /\ pc' = "repetition"
    /\ UNCHANGED <<source, loaded, overflow_checks, estimate, token, parsed, player,
                   workout, from, si, pi, first, result>>

\* the end of a repetition: the rest between repetitions
DoWorkoutSetRest ==
    /\ pc = "part"
    /\ player = "do_workout"
    /\ ~(pi < Len(Section.parts))
    /\ IF section_repetition < Section.reps - 1 /\ IsSome(Section.set_rest)
       THEN Emit(rest_with_warning(saturating_sub(Unwrap(Section.set_rest), PRE_SECTION_WAIT)))
       ELSE Emit(<<>>)
    /\ section_repetition' = section_repetition + 1
    /\ pc' = "repetition"
    /\ UNCHANGED <<source, loaded, overflow_checks, estimate, token, parsed, player,
                   workout, from, si, pi, first, result>>

\* the end with the beeps of the beginning: not the code's
DoWorkoutEnd_opening_beeps ==
    /\ pc = "section"
    /\ player = "do_workout"
    /\ ~(si < Len(workout.sections))
    /\ Emit(<<Sleep(2000), Beep("High"), Beep("Mid"), Beep("Low"), Sleep(2000)>>)
    /\ Return(Ok(<<>>))
    /\ UNCHANGED <<source, loaded, overflow_checks, estimate, token, parsed, player,
                   workout, from, si, section_repetition, pi, first>>

\* after the last section: the closing beeps
DoWorkoutEnd ==
    /\ pc = "section"
    /\ player = "do_workout"
    /\ ~(si < Len(workout.sections))
    /\ Emit(<<Sleep(2000), Beep("Low"), Beep("Mid"), Beep("High"), Sleep(2000)>>)
    /\ Return(Ok(<<>>))
    /\ UNCHANGED <<source, loaded, overflow_checks, estimate, token, parsed, player,
                   workout, from, si, section_repetition, pi, first>>

-----------------------------------------------------------------------------
(* play_workout, called by main with the beep callback *)

LAST_5 == 5000

\* if let Some(dur_first) = duration.checked_sub(LAST_5)
play_workout_rest(duration) ==
    IF duration >= LAST_5
    THEN <<Sleep(duration - LAST_5), Beep("Mid"), Sleep(LAST_5)>>
    ELSE <<Sleep(duration)>>

PlayWorkoutBegin ==
    /\ pc = "loaded"
    /\ player = "play_workout"
    /\ IsOk(loaded)
    /\ workout' = loaded.val
    /\ LET banner == length(loaded.val, overflow_checks) IN
       IF ~IsOk(banner)
       THEN Return(banner) /\ UNCHANGED si
       ELSE si' = 0 /\ pc' = "section" /\ UNCHANGED result
    /\ UNCHANGED <<source, loaded, overflow_checks, estimate, token, parsed, player,
                   from, section_repetition, pi, first, events, queue_in>>

PlayWorkoutSection ==
    /\ pc = "section"
    /\ player = "play_workout"
    /\ si < Len(workout.sections)
    /\ section_repetition' = 0
    /\ pc' = "repetition"
    /\ UNCHANGED <<source, loaded, overflow_checks, estimate, token, parsed, player,
                   workout, from, si, pi, first, events, queue_in, result>>

PlayWorkoutRepetition ==
    /\ pc = "repetition"
    /\ player = "play_workout"
    /\ section_repetition < Section.reps
    /\ Emit(<<Beep("Mid"), Beep("Mid"), Sleep(PRE_SECTION_WAIT)>>)
    /\ pi' = 0
    /\ pc' = "part"
    /\ UNCHANGED <<source, loaded, overflow_checks, estimate, token, parsed, player,
                   workout, from, si, section_repetition, first, result>>

PlayWorkoutNextSection ==
    /\ pc = "repetition"
    /\ player = "play_workout"
    /\ ~(section_repetition < Section.reps)
    /\ si' = si + 1
    /\ pc' = "section"
    /\ UNCHANGED <<source, loaded, overflow_checks, estimate, token, parsed, player,
                   workout, from, section_repetition, pi, first, events, queue_in,
                   result>>

PlayWorkoutPart ==
    /\ pc = "part"
    /\ player = "play_workout"
    /\ pi < Len(Section.parts)
    /\ LET p == Section.parts[pi + 1]
           started == Start(si, section_repetition, pi)
       IN  IF p.kind = "Excercise"
           THEN IF p.amount.kind = "Time"
                THEN /\ Emit(<<started, Beep("High")>> \o timed_excercise(p.amount))
                     /\ pi' = pi + 1
                     /\ pc' = "part"
                ELSE /\ Emit(<<started, Beep("High")>>)
                     /\ pc' = "read_line"
                     /\ UNCHANGED pi
           ELSE /\ Emit(<<started>> \o play_workout_rest(p.duration))
                /\ pi' = pi + 1
                /\ pc' = "part"
    /\ UNCHANGED <<source, loaded, overflow_checks, estimate, token, parsed, player,
                   workout, from, si, section_repetition, first, result>>

PlayWorkoutReadLine ==
    /\ pc = "read_line"
    /\ player = "play_workout"
    /\ \/ /\ Emit(<<ReadLine>>)
          /\ pi' = pi + 1
          /\ pc' = "part"
          /\ UNCHANGED result
       \/ /\ Return(Err("io"))
          /\ UNCHANGED <<pi, events, queue_in>>
    /\ UNCHANGED <<source, loaded, overflow_checks, estimate, token, parsed, player,
                   workout, from, si, section_repetition, first>>

PlayWorkoutSetRest ==
    /\ pc = "part"
    /\ player = "play_workout"
    /\ ~(pi < Len(Section.parts))
    /\ IF section_repetition < Section.reps - 1 /\ IsSome(Section.set_rest)
       THEN Emit(<<Sleep(saturating_sub(Unwrap(Section.set_rest), PRE_SECTION_WAIT))>>)
       ELSE Emit(<<>>)
    /\ section_repetition' = section_repetition + 1
    /\ pc' = "repetition"
    /\ UNCHANGED <<source, loaded, overflow_checks, estimate, token, parsed, player,
                   workout, from, si, pi, first, result>>

PlayWorkoutEnd ==
    /\ pc = "section"
    /\ player = "play_workout"
    /\ ~(si < Len(workout.sections))
    /\ Emit(<<Sleep(1000)>>)
    /\ Return(Ok(<<>>))
    /\ UNCHANGED <<source, loaded, overflow_checks, estimate, token, parsed, player,
                   workout, from, si, section_repetition, pi, first>>

-----------------------------------------------------------------------------
(* The program: a workout file is loaded and played *)

LnRest20 == <<"R", "e", "s", "t", " ", "0", "0", ":", "2", "0">>
LnExcerciseHold ==
    <<"E", "x", "c", "e", "r", "c", "i", "s", "e", " ", "H", "o", "l", "d", " ",
      "0", "0", ":", "3", "0">>
LnSetRest07 == <<"S", "e", "t", " ", "r", "e", "s", "t", " ", "0", "0", ":", "0", "7">>
LnSetB == <<"S", "e", "t", " ", "B">>
LnSetRest01 == <<"S", "e", "t", " ", "r", "e", "s", "t", " ", "0", "0", ":", "0", "1">>

WorkoutFiles ==
    { Text(<<LnWorkoutW>>),
      Text(<<LnWorkoutW, LnSet, LnExcercisePush>>),
      Text(<<LnWorkoutW, LnSet, LnExercisePush>>),
      Text(<<LnWorkoutW, LnSetAx2, LnRest, LnExcercisePlank, LnExcercisePush, LnSetRest,
             LnSetB, LnExcercisePush>>),
      Text(<<LnWorkoutW, LnSetB, LnExcercisePush, LnSetAx2, LnExcerciseHold, LnRest20,
             LnExcercisePush, LnSetRest07>>),
      Text(<<LnWorkoutW, LnSetAx2, LnExcerciseHold, LnSetB, LnRest, LnSetAx2,
             LnExcercisePush, LnRest>>),
      Text(<<LnWorkoutW, LnSetB, LnExcerciseHold, LnRest, LnSetAx0, LnExcercisePush,
             LnSetRest>>),
      Text(<<LnWorkoutW, LnSetAx2, LnExcercisePush, LnSetAx0, LnSetB, LnExcerciseHold>>),
      Text(<<LnWorkoutW, LnSetB, LnRest, LnSetAx2, LnExcercisePlank, LnSetRest>>),
      Text(<<LnWorkoutW, LnSetAx2, LnExcerciseHold, LnSetRest01, LnSetB, LnExcercisePlank,
             LnSetRest>>) }

StartPositions == (0..MaxStart) \X (0..MaxStart) \X (0..MaxStart)

Init ==
    /\ pc = "load"
    /\ source \in WorkoutFiles
    /\ loaded = Idle
    /\ overflow_checks \in BOOLEAN
    /\ estimate = Idle
    /\ NoHelper
    /\ player \in {"do_workout", "play_workout"}
    /\ workout = Workout(<<>>, <<>>)
    /\ from \in (IF player = "do_workout" THEN StartPositions ELSE {<<0, 0, 0>>})
    /\ si = 0
    /\ section_repetition = 0
    /\ pi = 0
    /\ first = FALSE
    /\ events = <<>>
    /\ queue_in = <<>>
    /\ result = Idle

Next ==
    \/ LoadWorkout
    \/ DoWorkoutBegin
    \/ DoWorkoutSection
    \/ DoWorkoutRepetition
    \/ DoWorkoutNextSection
    \/ DoWorkoutPart
    \/ DoWorkoutReadLine
    \/ DoWorkoutSetRest
    \/ DoWorkoutEnd
    \/ PlayWorkoutBegin
    \/ PlayWorkoutSection
    \/ PlayWorkoutRepetition
    \/ PlayWorkoutNextSection
    \/ PlayWorkoutPart
    \/ PlayWorkoutReadLine
    \/ PlayWorkoutSetRest
    \/ PlayWorkoutEnd

Spec == Init /\ [][Next]_vars

-----------------------------------------------------------------------------
(* The parser's helpers applied to a token on their own *)

AmountChars == {"0", "1", "3", "5", ":", "\"", "x"}
HeadChars == {" ", "A", "x", "3", "9"}

InitHelper ==
    /\ \/ pc = "amount" /\ token \in SeqsUpTo(AmountChars, MaxDurLen)
       \/ pc = "header" /\ token \in SeqsUpTo(HeadChars, MaxHeadLen)
    /\ parsed = Idle
    /\ source = <<>>
    /\ loaded = Idle
    /\ overflow_checks = FALSE
    /\ estimate = Idle
    /\ NoPlayer

\* the amount of an Excercise line
ParseAmount ==
    /\ pc = "amount"
    /\ parsed' = parse_amount(token)
    /\ pc' = "amount_done"
    /\ UNCHANGED <<source, loaded, overflow_checks, estimate, token, player, workout,
                   from, si, section_repetition, pi, first, events, queue_in, result>>

\* the name and the repeat count of a Set line
GetNameReps ==
    /\ pc = "header"
    /\ parsed' = get_name_reps(token)
    /\ pc' = "header_done"
    /\ UNCHANGED <<source, loaded, overflow_checks, estimate, token, player, workout,
                   from, si, section_repetition, pi, first, events, queue_in, result>>

NextHelper == ParseAmount \/ GetNameReps

SpecHelper == InitHelper /\ [][NextHelper]_vars

-----------------------------------------------------------------------------
(* Notions the properties are stated with *)

\* the positions of the elements started, in order
Played(evs) ==
    LET starts == SelectSeq(evs, LAMBDA e : e.ev = "start") IN
    [i \in 1..Len(starts) |-> starts[i].at]

RepetitionPositions(s, r, n) == [p \in 1..n |-> <<s, r, p - 1>>]

RECURSIVE SectionPositions(_, _, _, _)
SectionPositions(s, r, reps, n) ==
    IF r >= reps THEN <<>>
    ELSE RepetitionPositions(s, r, n) \o SectionPositions(s, r + 1, reps, n)

RECURSIVE PlaybackFrom(_, _)
PlaybackFrom(w, s) ==
    IF s >= Len(w.sections) THEN <<>>
    ELSE SectionPositions(s, 0, w.sections[s + 1].reps, Len(w.sections[s + 1].parts))
         \o PlaybackFrom(w, s + 1)

\* every element of every repetition of every section, from the beginning
FullPlayback(w) == PlaybackFrom(w, 0)

IsPrefix(a, b) == Len(a) <= Len(b) /\ SubSeq(b, 1, Len(a)) = a

Before(a, b) ==
    \/ a[1] < b[1]
    \/ a[1] = b[1] /\ a[2] < b[2]
    \/ a[1] = b[1] /\ a[2] = b[2] /\ a[3] < b[3]

ExcerciseIndices(parts) == {i \in 1..Len(parts) : parts[i].kind = "Excercise"}

\* indices s, r, e that all exist
InBounds(w, f) ==
    /\ f[1] < Len(w.sections)
    /\ f[2] < w.sections[f[1] + 1].reps
    /\ f[3] < Cardinality(ExcerciseIndices(w.sections[f[1] + 1].parts))

\* the zero-based element index of the (e+1)-th Excercise of section s
ResumeElement(w, f) ==
    LET ex == ExcerciseIndices(w.sections[f[1] + 1].parts) IN
    (CHOOSE i \in ex : Cardinality({j \in ex : j < i}) = f[3]) - 1

\* the full playback from the resumed element occurrence on
ResumedPlayback(w, f) ==
    LET at == <<f[1], f[2], ResumeElement(w, f)>> IN
    SelectSeq(FullPlayback(w), LAMBDA t : ~Before(t, at))

Resuming == player = "do_workout" /\ IsOk(loaded)

-----------------------------------------------------------------------------
(* C1: a start position other than (0,0,0) with an index out of range makes *)
(* do_workout return 'Starting position is out of bounds': it does not      *)
(* crash and it starts no element.  The code reads sections[s] before it    *)
(* checks s and compares with > where >= is needed.                         *)
C1_OutOfRangeStartIsRejected ==
    (Resuming /\ from # <<0, 0, 0>> /\ ~InBounds(loaded.val, from))
        => /\ Played(events) = <<>>
           /\ pc = "done" => result = OutOfBounds

(* C2: from (0,0,0) do_workout starts every element of every repetition of  *)
(* every section, beginning at element 0, as play_workout does: what it has *)
(* started is always a prefix of the full playback and, when it returns Ok, *)
(* all of it; it never reports the start as out of bounds.                  *)
C2_DefaultStartPlaysEverything ==
    (Resuming /\ from = <<0, 0, 0>>)
        => /\ IsPrefix(Played(events), FullPlayback(loaded.val))
           /\ result # OutOfBounds
           /\ (pc = "done" /\ IsOk(result)) => Played(events) = FullPlayback(loaded.val)

\* play_workout starts exactly the full playback
PlayWorkoutPlaysEverything ==
    (player = "play_workout" /\ IsOk(loaded))
        => /\ IsPrefix(Played(events), FullPlayback(loaded.val))
           /\ (pc = "done" /\ IsOk(result)) => Played(events) = FullPlayback(loaded.val)

\* what resuming at an in-bounds start is to do
ResumesAt(w, f) ==
    /\ result.tag # "Panic"
    /\ result # OutOfBounds
    /\ IsPrefix(Played(events), ResumedPlayback(w, f))
    /\ (pc = "done" /\ IsOk(result)) => Played(events) = ResumedPlayback(w, f)

(* C3: for every in-bounds start (s, r, e) do_workout resumes: it neither   *)
(* crashes nor rejects the start, the first element it starts is the        *)
(* (e+1)-th Excercise of section s in repetition r, and what it starts is   *)
(* the full playback from that occurrence on (all of it when it returns Ok).*)
C3_InBoundsStartResumes ==
    (Resuming /\ InBounds(loaded.val, from)) => ResumesAt(loaded.val, from)

\* every section is repeated at least once
NoEmptyRepeat(w) == \A i \in 1..Len(w.sections) : w.sections[i].reps >= 1

\* the resume logic on its own: C3 for the runs in which the banner's
\* Workout::length cannot panic
ResumeLogic ==
    (/\ Resuming
     /\ InBounds(loaded.val, from)
     /\ NoEmptyRepeat(loaded.val) \/ ~overflow_checks)
        => ResumesAt(loaded.val, from)

-----------------------------------------------------------------------------
(* Properties of load_workout *)

Loaded == pc \in {"loaded", "shown"}

LnPush == <<"P", "u", "s", "h">>

OneRepsExcercise(r) ==
    /\ IsOk(r)
    /\ r.val.name = <<"W">>
    /\ Len(r.val.sections) = 1
    /\ r.val.sections[1].reps = 1
    /\ Len(r.val.sections[1].parts) = 1
    /\ r.val.sections[1].parts[1].kind = "Excercise"
    /\ r.val.sections[1].parts[1].amount = RepsAmount(10)

SetHeaders == {LnSet, LnSetX3, LnSetAx2, LnSetAx0}

Front(q) == SubSeq(q, 1, Len(q) - 1)
Last(q) == q[Len(q)]

(* C5: a `Set rest <token>` line with an unparsable token of any length,    *)
(* right after the elements of a section, does not make parsing fail and    *)
(* leaves that section's set_rest None.  (The text before the line is one   *)
(* that parses and ends inside a section that has no set_rest yet.)         *)
C5_BadSetRestIsNoRest ==
    Loaded =>
        LET ls == lines_of(source) IN
        (Len(ls) >= 2 /\ Last(ls) \in {LnSetRestShort, LnSetRestBad}) =>
            LET before == load_workout(Text(Front(ls))) IN
            (/\ IsOk(before)
             /\ before.val.sections # <<>>
             /\ IsNone(Last(before.val.sections).set_rest))
                => /\ IsOk(loaded)
                   /\ IsNone(loaded.val.sections[Len(before.val.sections)].set_rest)

(* C8: every section of every loaded workout has reps >= 1 *)
C8_RepsAtLeastOne ==
    (Loaded /\ IsOk(loaded)) => NoEmptyRepeat(loaded.val)

RECURSIVE ClaimedPartsDuration(_)
ClaimedPartsDuration(parts) ==
    IF parts = <<>> THEN 0
    ELSE (IF Head(parts).kind = "Rest" THEN Head(parts).duration
          ELSE IF Head(parts).amount.kind = "Time" THEN Head(parts).amount.duration
          ELSE 0)
         + ClaimedPartsDuration(Tail(parts))

RECURSIVE ClaimedLength(_)
ClaimedLength(sections) ==
    IF sections = <<>> THEN 0
    ELSE LET sec == Head(sections)
             set_rest == IF IsNone(sec.set_rest) THEN 0 ELSE Unwrap(sec.set_rest)
         IN  set_rest * (sec.reps - 1) + ClaimedPartsDuration(sec.parts) * sec.reps
             + ClaimedLength(Tail(sections))

(* C9: for every loaded workout length() is the sum over the sections of    *)
(* set_rest * (reps - 1) + parts_duration * reps, a Duration: it does not   *)
(* fail and nothing underflows.                                             *)
C9_LengthIsTheSum ==
    pc = "shown" =>
        /\ IsOk(estimate)
        /\ estimate.val = Wide(0, ClaimedLength(loaded.val.sections))
        /\ ClaimedLength(loaded.val.sections) >= 0

-----------------------------------------------------------------------------
(* Properties of main's beep callback *)

ClaimedFrequency(level) ==
    CASE level = "High" -> 750
      [] level = "Mid" -> 600
      [] level = "Low" -> 450

(* C6: in main every beep of level L appends the clip of L's own frequency: *)
(* High 750 Hz, Mid 600 Hz, Low 450 Hz.                                     *)
C6_BeepEnqueuesOwnTone ==
    player = "play_workout" =>
        LET beeps == SelectSeq(events, LAMBDA e : e.ev = "beep") IN
        /\ Len(queue_in) = Len(beeps)
        /\ \A i \in 1..Len(beeps) :
               queue_in[i].frequency = ClaimedFrequency(beeps[i].level)

-----------------------------------------------------------------------------
(* Properties of the parser's helpers *)

\* the text after the last space, or all of it
LastToken(s) ==
    LET at == {i \in 1..Len(s) : s[i] = " "} IN
    IF at = {} THEN s ELSE SubSeq(s, SetMax(at) + 1, Len(s))

\* x followed by an integer a u16 holds
IsRepeatCount(t) ==
    /\ Len(t) >= 2
    /\ t[1] = "x"
    /\ \A i \in 2..Len(t) : IsDigit(t[i])
    /\ DecimalValue(Tail(t)) <= 65535

ClaimedNameReps(after_set) ==
    LET set == trim_start(after_set)
        last == LastToken(set)
    IN  IF set = <<>> THEN <<None, 1>>
        ELSE IF IsRepeatCount(last)
        THEN <<IF Len(last) = Len(set) THEN None
               ELSE Some(SubSeq(set, 1, Len(set) - Len(last) - 1)),
               DecimalValue(Tail(last))>>
        ELSE <<Some(set), 1>>

(* C7: of the text after `Set`: when its last space-separated token is a    *)
(* valid x<integer>, reps is that integer and the name is what precedes the *)
(* token, no name when nothing precedes it (`Set x3`); otherwise the whole  *)
(* text is the name and reps is 1; nothing after `Set` is no name, reps 1.  *)
C7_SetHeader ==
    pc = "header_done" => parsed = ClaimedNameReps(token)

IsTwoDigits(s) == Len(s) = 2 /\ IsDigit(s[1]) /\ IsDigit(s[2])

\* MM:SS, or MM:SS"
IsDurationToken(t) ==
    /\ Len(t) \in {5, 6}
    /\ IsTwoDigits(SubSeq(t, 1, 2))
    /\ t[3] = ":"
    /\ IsTwoDigits(SubSeq(t, 4, 5))
    /\ Len(t) = 6 => t[6] = "\""

(* C10: an amount token MM:SS is Time{duration = 60*MM + SS seconds,        *)
(* midbeep = false}; the same token followed by a quote is the same         *)
(* duration with midbeep = true.                                            *)
C10_DurationToken ==
    (pc = "amount_done" /\ IsDurationToken(token)) =>
        LET MM == 10 * DigitValue(token[1]) + DigitValue(token[2])
            SS == 10 * DigitValue(token[4]) + DigitValue(token[5])
        IN  parsed = Ok(TimeAmount((60 * MM + SS) * 1000, Len(token) = 6))

C10_Witness ==
    /\ pc = "amount_done"
    /\ token = <<"0", "1", ":", "0", "0", "\"">>
    /\ parsed = Ok(TimeAmount(60000, TRUE))

-----------------------------------------------------------------------------
(* Malformed input *)

\* a token that is not two digits, a colon, two digits in its first five
\* characters
IsMalformedDuration(t) ==
    \/ Len(t) < 5
    \/ t[3] # ":"
    \/ ~IsTwoDigits(SubSeq(t, 1, 2))
    \/ ~IsTwoDigits(SubSeq(t, 4, 5))

(* C11: a duration token that is shorter than five characters, or whose     *)
(* third character is not a colon, or whose minutes or seconds are not two  *)
(* digits, never becomes a duration: the parse returns the duration error.  *)
C11_MalformedDurationIsAnError ==
    (pc = "amount_done" /\ ~starts_with(token, <<"x">>) /\ IsMalformedDuration(token)) =>
        parsed = Err("Couldn't parse excercise duration")

FirstLineIsWorkout(text) ==
    LET nonblank == SelectSeq(lines_of(text), LAMBDA l : trim(l) # <<>>) IN
    /\ nonblank # <<>>
    /\ starts_with(trim_start(nonblank[1]), KwWorkout)

(* C12: a text whose first non-blank line is not `Workout <name>`, a text   *)
(* with no non-blank line included, loads to the missing-name error: no     *)
(* crash and no workout.                                                    *)
C12_NoWorkoutLineIsAnError ==
    (Loaded /\ ~FirstLineIsWorkout(source)) =>
        loaded = Err("Didn't provide workout name")

-----------------------------------------------------------------------------
(* The beeps of a run of do_workout *)

BeepLevels(evs) ==
    LET beeps == SelectSeq(evs, LAMBDA e : e.ev = "beep") IN
    [i \in 1..Len(beeps) |-> beeps[i].level]

\* the places of evs where three beeps of these levels follow one another
FanfareAt(evs, levels) ==
    {i \in 1..Len(evs) - 2 : \A k \in 1..3 : evs[i + k - 1] = Beep(levels[k])}

OpensWithFanfare(evs) == 1 \in FanfareAt(evs, <<"High", "Mid", "Low">>)

\* the closing beeps come after everything else but sleeps
ClosesWithFanfare(evs) ==
    \E i \in FanfareAt(evs, <<"Low", "Mid", "High">>) :
        /\ \A j \in 1..Len(evs) : evs[j].ev \in {"start", "read_line"} => j < i
        /\ \A j \in i + 3..Len(evs) : evs[j].ev = "sleep"
        /\ LET levels == BeepLevels(evs) IN
           SubSeq(levels, Len(levels) - 2, Len(levels)) = <<"Low", "Mid", "High">>

BeepsOfARun ==
    player = "do_workout" =>
        /\ events # <<>> => OpensWithFanfare(events)
        /\ (pc = "done" /\ result.tag = "Ok") =>
               OpensWithFanfare(events) /\ ClosesWithFanfare(events)
        /\ (pc = "done" /\ result.tag = "Err") =>
               FanfareAt(events, <<"Low", "Mid", "High">>) = {}

NothingAfterTheReturn == pc = "done" => UNCHANGED <<events, queue_in, result>>

-----------------------------------------------------------------------------
(* After the resume point *)

(* C14: of a run of do_workout from an accepted start (s, r, e): every      *)
(* section after s is played from repetition 0, every element of every      *)
(* repetition, and every repetition of section s after repetition r is      *)
(* played from element 0: the skipping touches section s only.              *)
C14_ResumeAppliesOnce ==
    (Resuming /\ pc = "done" /\ result.tag = "Ok") =>
        LET w == loaded.val
            played == Played(events)
        IN  /\ SelectSeq(played, LAMBDA t : t[1] > from[1]) = PlaybackFrom(w, from[1] + 1)
            /\ from[1] < Len(w.sections) =>
                   SelectSeq(played, LAMBDA t : t[1] = from[1] /\ t[2] > from[2]) =
                       SectionPositions(from[1], from[2] + 1, w.sections[from[1] + 1].reps,
                                        Len(w.sections[from[1] + 1].parts))

-----------------------------------------------------------------------------
(* What follows the start of an element *)

ElementAt(w, at) == w.sections[at[1] + 1].parts[at[3] + 1]

\* the places of evs where an element of this kind starts
StartsOf(w, evs, IsKind(_)) ==
    {i \in 1..Len(evs) : evs[i].ev = "start" /\ IsKind(ElementAt(w, evs[i].at))}

\* the events exp follow place i of evs
Follows(evs, i, exp) ==
    Len(evs) >= i + Len(exp) /\ SubSeq(evs, i + 1, i + Len(exp)) = exp

\* a rest of d: a Mid beep five seconds before its end when it is longer
\* than five seconds
ClaimedRest(d) ==
    IF d > 5000 THEN <<Sleep(d - 5000), Beep("Mid"), Sleep(5000)>> ELSE <<Sleep(d)>>

IsRest(p) == p.kind = "Rest"

(* C15: in both players a Rest element of duration d longer than 5 s is a   *)
(* sleep of d - 5 s, one Mid beep and a sleep of 5 s; a Rest of 5 s or less *)
(* is one sleep of d with no beep.                                          *)
C15_RestWithWarning ==
    IsOk(loaded) =>
        \A i \in StartsOf(loaded.val, events, IsRest) :
            Follows(events, i, ClaimedRest(ElementAt(loaded.val, events[i].at).duration))

-----------------------------------------------------------------------------
(* The rest between the repetitions of a section *)

\* the rest after repetition r of section s: the set rest less the two
\* seconds of the next repetition's wait, never less than nothing, and none
\* after the last repetition
ClaimedSetRest(s, r) ==
    IF IsSome(s.set_rest) /\ r + 1 < s.reps
    THEN LET d == Unwrap(s.set_rest)
             total == IF d > 2000 THEN d - 2000 ELSE 0
         IN  ClaimedRest(total)
    ELSE <<>>

RepetitionEnds == pc = "part" /\ pc' = "repetition"

SetRestStep ==
    (player = "do_workout" /\ RepetitionEnds) =>
        /\ events' = events \o ClaimedSetRest(loaded.val.sections[si + 1], section_repetition)
        /\ section_repetition < loaded.val.sections[si + 1].reps

NoNegativeSleep == \A i \in 1..Len(events) : events[i].ev = "sleep" => events[i].ms >= 0

(* C16: in do_workout the end of a repetition of a section with a set rest  *)
(* is the rest-with-warning of set_rest - 2 s, zero at least, when the      *)
(* repetition is not the last of the section, and nothing after the last;   *)
(* no sleep is of a negative duration.                                      *)
C16_SetRestBetweenRepetitions == []NoNegativeSleep /\ [][SetRestStep]_vars

\* between the two repetitions of a section with a set rest of 10 s
C16_Witness ==
    /\ player = "do_workout"
    /\ pc = "repetition"
    /\ section_repetition = 1
    /\ Section.reps = 2
    /\ Section.set_rest = Some(10000)
    /\ Len(events) >= 3
    /\ SubSeq(events, Len(events) - 2, Len(events)) =
           <<Sleep(3000), Beep("Mid"), Sleep(5000)>>

-----------------------------------------------------------------------------
(* The beginning of a repetition and the order of its elements *)

RepetitionCue == <<Beep("Mid"), Beep("Mid"), Sleep(2000)>>

RepetitionBegins == pc = "repetition" /\ pc' \in {"part", "done"}

\* the places of evs where the first element played of a repetition starts
FirstStarts(evs) ==
    {i \in 1..Len(evs) :
        /\ evs[i].ev = "start"
        /\ \A j \in 1..i - 1 :
               evs[j].ev = "start" =>
                   <<evs[j].at[1], evs[j].at[2]>> # <<evs[i].at[1], evs[i].at[2]>>}

CueBeforeFirstElement ==
    \A i \in FirstStarts(events) :
        /\ i > 3
        /\ SubSeq(events, i - 3, i - 1) = RepetitionCue
        /\ i > 4 => events[i - 4] # Beep("Mid")

ElementsInOrder ==
    LET played == Played(events) IN
    \A i, j \in 1..Len(played) :
        (i < j /\ played[i][1] = played[j][1] /\ played[i][2] = played[j][2]) =>
            /\ played[i][3] < played[j][3]
            /\ \A k \in i..j : played[k][1] = played[i][1] /\ played[k][2] = played[i][2]

(* C17: every repetition do_workout plays begins with two Mid beeps, no     *)
(* more, and the wait of 2 s, which come right before its first element;    *)
(* the elements of a repetition start in the order of the section, none     *)
(* twice.                                                                   *)
C17_RepetitionCue ==
    /\ [](player = "do_workout" => CueBeforeFirstElement /\ ElementsInOrder)
    /\ [][(player = "do_workout" /\ RepetitionBegins) =>
              events' = events \o RepetitionCue]_vars

\* the second repetition of a section, two of its elements started
C17_Witness ==
    /\ player = "do_workout"
    /\ section_repetition = 1
    /\ LET played == Played(events) IN
       /\ Len(played) >= 2
       /\ played[Len(played)][2] = 1
       /\ played[Len(played) - 1][2] = 1
       /\ played[Len(played)][3] = played[Len(played) - 1][3] + 1
    /\ Cardinality(FirstStarts(events)) >= 2

-----------------------------------------------------------------------------
(* A timed excercise *)

\* High, the sleeps with the Mid beep between the halves when asked for, Low
ClaimedTimed(duration, midbeep) ==
    IF midbeep
    THEN <<Beep("High"), Sleep(duration \div 2), Beep("Mid"),
           Sleep(duration - duration \div 2), Beep("Low")>>
    ELSE <<Beep("High"), Sleep(duration), Beep("Low")>>

IsTimed(p) == p.kind = "Excercise" /\ p.amount.kind = "Time"

SleptIn(evs) ==
    LET sleeps == SelectSeq(evs, LAMBDA e : e.ev = "sleep")
        sum[i \in 0..Len(sleeps)] == IF i = 0 THEN 0 ELSE sum[i - 1] + sleeps[i].ms
    IN  sum[Len(sleeps)]

(* C18: in both players a timed excercise is a High beep, a sleep, with     *)
(* midbeep one Mid beep after half the duration and a sleep of the other    *)
(* half, then a Low beep; without midbeep no Mid beep; the sleeps between   *)
(* the High and the Low beep are the duration in all.                       *)
C18_TimedExcercise ==
    IsOk(loaded) =>
        \A i \in StartsOf(loaded.val, events, IsTimed) :
            LET amount == ElementAt(loaded.val, events[i].at).amount
                exp == ClaimedTimed(amount.duration, amount.midbeep)
            IN  /\ Follows(events, i, exp)
                /\ SleptIn(SubSeq(events, i + 1, i + Len(exp))) = amount.duration

\* both a timed excercise with the beep at its middle and one without played
C18_Witness ==
    /\ IsOk(loaded)
    /\ \E i, j \in StartsOf(loaded.val, events, IsTimed) :
           /\ ElementAt(loaded.val, events[i].at).amount = TimeAmount(90000, TRUE)
           /\ events[i + 3] = Beep("Mid")
           /\ ~ElementAt(loaded.val, events[j].at).amount.midbeep
           /\ events[j + 3] = Beep("Low")

-----------------------------------------------------------------------------
(* A counted excercise *)

IsCounted(p) == p.kind = "Excercise" /\ p.amount.kind = "Reps"

\* High, then the line read before anything else, and no Low beep after it
CountedExcerciseEvents ==
    \A i \in StartsOf(loaded.val, events, IsCounted) :
        /\ Follows(events, i, <<Beep("High")>>)
        /\ Len(events) > i + 1 => events[i + 2] = ReadLine
        /\ Len(events) > i + 2 => events[i + 3] # Beep("Low")

\* a line is read after the High beep of a counted excercise and nowhere else
ReadsOnlyThere ==
    \A k \in 1..Len(events) :
        events[k].ev = "read_line" =>
            /\ k > 2
            /\ events[k - 1] = Beep("High")
            /\ k - 2 \in StartsOf(loaded.val, events, IsCounted)

Blocked == pc = "read_line"

BlockedAfterHigh ==
    Blocked =>
        /\ Len(events) >= 2
        /\ events[Len(events)] = Beep("High")
        /\ Len(events) - 1 \in StartsOf(loaded.val, events, IsCounted)

\* blocked, nothing happens but the line read, or the failure to read it
BlockedStep ==
    Blocked =>
        \/ events' = events \o <<ReadLine>> /\ pc' = "part" /\ pi' = pi + 1
        \/ events' = events /\ pc' = "done" /\ result'.tag = "Err"

(* C19: a counted excercise is one High beep, then nothing, no beep, sleep  *)
(* or element, until a line of input is read; the next element follows with *)
(* no Low beep; a line is read at no other point of the playback.           *)
C19_CountedExcerciseBlocks ==
    /\ [](IsOk(loaded) => CountedExcerciseEvents /\ ReadsOnlyThere /\ BlockedAfterHigh)
    /\ [][BlockedStep]_vars

\* the element after a counted excercise started once the line was read
C19_Witness ==
    /\ IsOk(loaded)
    /\ player = "do_workout"
    /\ \E i \in StartsOf(loaded.val, events, IsCounted) :
           /\ Len(events) >= i + 3
           /\ events[i + 2] = ReadLine
           /\ events[i + 3].ev = "start"
           /\ events[i + 3].at[3] = events[i].at[3] + 1

-----------------------------------------------------------------------------
(* Termination of do_workout *)

Playing == pc \in {"section", "repetition", "part", "read_line"}

\* the place of the run in the workout: the section, the repetition (none
\* yet at the head of a section), the element (none yet at the head of a
\* repetition), and whether the line to read is awaited
Place ==
    IF pc = "section" THEN <<si, -1, -1, 0>>
    ELSE IF pc = "repetition" THEN <<si, section_repetition, -1, 0>>
    ELSE IF pc = "part" THEN <<si, section_repetition, pi, 0>>
    ELSE <<si, section_repetition, pi, 1>>

Further(a, b) ==
    \/ Before(a, b)
    \/ a[1] = b[1] /\ a[2] = b[2] /\ a[3] = b[3] /\ a[4] < b[4]

\* the place never leaves the workout
PlaceIsBounded ==
    Playing =>
        /\ si <= Len(workout.sections)
        /\ pc # "section" =>
               /\ si < Len(workout.sections)
               /\ section_repetition <= SetMax({Section.reps, from[2]})
               /\ pc # "repetition" => pi <= Len(Section.parts)

\* every step of the playback moves the place further, or ends the run
Progress ==
    Playing =>
        \/ Playing' /\ Further(Place, Place')
        \/ pc' = "done"

Returned == pc = "done" /\ result.tag \in {"Ok", "Err"}

\* no element of a repetition is started again later
NoRevisit ==
    LET played == Played(events) IN
    \A i, j \in 1..Len(played) : i < j => Before(played[i], played[j])

(* C20: a run of do_workout, of any loaded workout from any start position, *)
(* goes on until it has returned success or an error: every step of the     *)
(* playback moves it further in the finite workout, it stops nowhere but at *)
(* a return, and it starts no element of a repetition already played.       *)
C20_DoWorkoutReturns ==
    /\ []((player = "do_workout" /\ IsOk(loaded)) =>
              /\ Returned \/ ENABLED Next
              /\ PlaceIsBounded
              /\ NoRevisit)
    /\ [][player = "do_workout" => Progress]_vars

DoWorkoutStep ==
    \/ DoWorkoutBegin
    \/ DoWorkoutSection
    \/ DoWorkoutRepetition
    \/ DoWorkoutNextSection
    \/ DoWorkoutPart
    \/ DoWorkoutReadLine
    \/ DoWorkoutSetRest
    \/ DoWorkoutEnd

\* the thread of do_workout goes on: its sleeps end, and the line it waits
\* for arrives
SpecFair == Spec /\ WF_vars(DoWorkoutStep)

DoWorkoutStops == (player = "do_workout" /\ IsOk(loaded)) ~> (pc = "done")

DoWorkoutStopsByReturning == (player = "do_workout" /\ IsOk(loaded)) ~> Returned

-----------------------------------------------------------------------------
(* The sections and the lines they come from *)

NonBlankLines(text) == SelectSeq(lines_of(text), LAMBDA l : trim(l) # <<>>)

IsSetRestLine(l) == starts_with(trim_start(l), KwSetRest)

IsHeaderLine(l) == starts_with(trim_start(l), KwSet) /\ ~IsSetRestLine(l)

IsElementLine(l) ==
    \/ starts_with(trim_start(l), KwExcercise \o <<" ">>)
    \/ starts_with(trim_start(l), KwRest \o <<" ">>)

\* every Set rest line is written after the header or the elements of a
\* section
SetRestsFollowSections(lines) ==
    \A k \in 1..Len(lines) :
        IsSetRestLine(lines[k]) =>
            k > 1 /\ (IsHeaderLine(lines[k - 1]) \/ IsElementLine(lines[k - 1]))

HeaderLines(lines) == {k \in 1..Len(lines) : IsHeaderLine(lines[k])}

(* C21: of a text that loads to a workout and whose Set rest lines are      *)
(* written after a section's header or elements: the workout has as many    *)
(* sections as the text has section header lines; no Set rest line is a     *)
(* section of its own.                                                      *)
C21_SectionsAreHeaders ==
    (Loaded /\ IsOk(loaded) /\ SetRestsFollowSections(NonBlankLines(source))) =>
        Len(loaded.val.sections) = Cardinality(HeaderLines(NonBlankLines(source)))

-----------------------------------------------------------------------------
(* The rejection of a start position *)

Rejected == player = "do_workout" /\ pc = "done" /\ result = OutOfBounds

(* C22: a run of do_workout that returns 'Starting position is out of       *)
(* bounds' has emitted the three opening beeps and no other beep, no wait   *)
(* of 2 s before a repetition, and has started no element.                  *)
C22_RejectedBeforePlayback ==
    Rejected =>
        /\ BeepLevels(events) = <<"High", "Mid", "Low">>
        /\ \A i \in 1..Len(events) : events[i] # Sleep(2000)
        /\ Played(events) = <<>>

====
